---- MODULE Spec2Model ----
(***************************************************************************)
(* Model of coursebuilder/controllers/assessments.py: store_score and the  *)
(* AnswerHandler (post and the cross-group datastore transaction           *)
(* update_assessment_transaction).                                         *)
(***************************************************************************)
EXTENDS Integers, Sequences, FiniteSets, Bags, TLC

(***************************************************************************)
(* IEEE-754 binary64 arithmetic of line 69,                                *)
(*     int((0.3 * midcourse_score) + (0.7 * postcourse_score)).            *)
(* A magnitude is a 64-bit natural held as four 16-bit limbs, least        *)
(* significant first, counting units of 2^-54 (the weight of the last bit  *)
(* of the double nearest 0.3).  Every product and sum is computed exactly  *)
(* and then rounded to 53 significant bits, ties to even.                  *)
(***************************************************************************)
LimbBase == 2^16

\* the double nearest 0.3 is 0x13333333333333 * 2^-54
Double03 == <<13107, 13107, 13107, 19>>

\* the double nearest 0.7 is 0x16666666666666 * 2^-53 = 0x2CCCCCCCCCCCCC * 2^-54
Double07 == <<52428, 52428, 52428, 44>>

BigZero == <<0, 0, 0, 0>>

Abs(n) == IF n < 0 THEN -n ELSE n

\* x * n, exact, for a natural n < 2^15
BigMulSmall(x, n) ==
    LET p1 == x[1] * n
        p2 == x[2] * n + (p1 \div LimbBase)
        p3 == x[3] * n + (p2 \div LimbBase)
        p4 == x[4] * n + (p3 \div LimbBase)
    IN  <<p1 % LimbBase, p2 % LimbBase, p3 % LimbBase, p4>>

\* x + y, exact
BigAdd(x, y) ==
    LET s1 == x[1] + y[1]
        s2 == x[2] + y[2] + (s1 \div LimbBase)
        s3 == x[3] + y[3] + (s2 \div LimbBase)
        s4 == x[4] + y[4] + (s3 \div LimbBase)
    IN  <<s1 % LimbBase, s2 % LimbBase, s3 % LimbBase, s4>>

\* x < y
BigLess(x, y) ==
    \E i \in 1..4 : x[i] < y[i] /\ \A j \in (i+1)..4 : x[j] = y[j]

\* x - y, exact, for y <= x
BigSub(x, y) ==
    LET d1 == x[1] - y[1]
        b1 == IF d1 < 0 THEN 1 ELSE 0
        d2 == x[2] - y[2] - b1
        b2 == IF d2 < 0 THEN 1 ELSE 0
        d3 == x[3] - y[3] - b2
        b3 == IF d3 < 0 THEN 1 ELSE 0
        d4 == x[4] - y[4] - b3
    IN  <<d1 + b1 * LimbBase, d2 + b2 * LimbBase, d3 + b3 * LimbBase, d4>>

RECURSIVE BitLen(_)
BitLen(n) == IF n = 0 THEN 0 ELSE 1 + BitLen(n \div 2)

BigBitLen(x) ==
    IF x[4] # 0 THEN 48 + BitLen(x[4])
    ELSE IF x[3] # 0 THEN 32 + BitLen(x[3])
    ELSE IF x[2] # 0 THEN 16 + BitLen(x[2])
    ELSE BitLen(x[1])

\* The exact magnitude x rounded to the nearest value of 53 significant
\* bits, ties to even (at most 11 bits are dropped here).
RoundToDouble(x) ==
    LET len  == BigBitLen(x)
        d    == len - 53
        unit == 2^d
        r    == x[1] % unit
        odd  == (x[1] \div unit) % 2 = 1
        down == <<x[1] - r, x[2], x[3], x[4]>>
        up   == BigAdd(down, <<unit, 0, 0, 0>>)
    IN  IF len <= 53 THEN x
        ELSE IF 2 * r > unit \/ (2 * r = unit /\ odd) THEN up
        ELSE down

\* c * n in binary64, c one of the two constants above, n an integer
DoubleMul(c, n) ==
    [neg |-> n < 0, mag |-> RoundToDouble(BigMulSmall(c, Abs(n)))]

\* a + b in binary64
DoubleAdd(a, b) ==
    IF a.neg = b.neg
    THEN [neg |-> a.neg, mag |-> RoundToDouble(BigAdd(a.mag, b.mag))]
    ELSE IF BigLess(a.mag, b.mag)
    THEN [neg |-> b.neg, mag |-> RoundToDouble(BigSub(b.mag, a.mag))]
    ELSE IF a.mag = b.mag
    THEN [neg |-> FALSE, mag |-> BigZero]
    ELSE [neg |-> a.neg, mag |-> RoundToDouble(BigSub(a.mag, b.mag))]

\* int(x): truncation toward zero (2^54 units make 1, bit 54 is bit 6 of limb 4)
DoubleToInt(a) ==
    LET q == a.mag[4] \div 64
    IN  IF a.neg THEN -q ELSE q

\* line 69
OverallFormula(midcourse_score, postcourse_score) ==
    DoubleToInt(DoubleAdd(DoubleMul(Double03, midcourse_score),
                          DoubleMul(Double07, postcourse_score)))

(***************************************************************************)
(* Bounds and input domains                                                *)
(***************************************************************************)
\* requests handled in one behaviour
MaxRequests == 2

\* request handler instances running concurrently
Procs == {"p1", "p2"}

\* key names of the Student entities in the datastore
Students == {"s1", "s2"}

\* "nobody" is an email with no Student entity
Emails == Students \cup {"nobody"}

\* assessment types a request may name (any string is accepted)
Types == {"Mid", "Fin", "overall_score"}

\* decoded 'answers' payloads
Payloads == {"a1", "a2"}

\* the 'score' request parameter: a decimal numeral, held in tenths, or a
\* string float() rejects
ScoreParams ==
    [parses : {TRUE}, tenths : {596, 800, 904, 1000}]
        \cup {[parses |-> FALSE, tenths |-> 0]}

\* the 'assessment_type' request parameter; "" when it is missing
TypeParams == Types \cup {""}

None == <<>>

Some(v) == <<v>>

\* every learner under the one user id
UserIdShared(email) == "s1"

\* get_user().user_id() of the user whose Student key name is email
UserIdOf(email) == email

(***************************************************************************)
(* models.utils: the scores of a Student and the data of a               *)
(* StudentAnswersEntity are dictionaries from assessment name to value.    *)
(***************************************************************************)
get_score(student, assessment_name) ==
    IF assessment_name \in DOMAIN student.scores
    THEN Some(student.scores[assessment_name])
    ELSE None

set_score(student, assessment_name, score) ==
    [student EXCEPT !.scores =
        [k \in DOMAIN student.scores \cup {assessment_name} |->
            IF k = assessment_name THEN score ELSE student.scores[k]]]

set_answer(answers, assessment_name, answer) ==
    [answers EXCEPT !.data =
        [k \in DOMAIN answers.data \cup {assessment_name} |->
            IF k = assessment_name THEN answer ELSE answers.data[k]]]

\* int(round(float(s))) of line 143: round() takes halves away from zero
ParseScore(param) ==
    LET a == Abs(param.tenths)
        q == (a + 5) \div 10
    IN  IF param.tenths < 0 THEN -q ELSE q

(***************************************************************************)
(* store_score, lines 30-73: the student with the score stored, and the    *)
(* result of the assessment.                                               *)
(***************************************************************************)
\* the result and the overall score of lines 54-71, given the student after
\* line 49 and the post-course score chosen
final_result(stored, assessment_type, postcourse_score, threshold) ==
    LET mid == get_score(stored, "Mid")
        midcourse_score == IF mid = None THEN 0 ELSE mid[1]
        overall_score == OverallFormula(midcourse_score, postcourse_score)
    IN  IF assessment_type = "Fin"
        THEN [student |-> set_score(stored, "overall_score", overall_score),
              result  |-> IF overall_score >= threshold THEN "pass" ELSE "fail"]
        ELSE [student |-> stored, result |-> "None"]

\* store_score with the test of line 54 dropped: every assessment is final
store_score_every_final(student, assessment_type, score) ==
    LET existing_score == get_score(student, assessment_type)
        higher == existing_score = None \/ score > existing_score[1]
    IN  final_result(IF higher THEN set_score(student, assessment_type, score)
                     ELSE student,
                     "Fin",
                     IF higher THEN score ELSE existing_score[1],
                     70)

\* store_score with lines 63-66 dropped: the overall score is computed from
\* the submitted score
store_score_submitted(student, assessment_type, score) ==
    LET existing_score == get_score(student, assessment_type)
        higher == existing_score = None \/ score > existing_score[1]
    IN  final_result(IF higher THEN set_score(student, assessment_type, score)
                     ELSE student,
                     assessment_type, score, 70)

\* store_score with line 70 judging the overall score of the submitted score
\* instead of the one stored
store_score_verdict_submitted(student, assessment_type, score) ==
    LET existing_score == get_score(student, assessment_type)
        higher == existing_score = None \/ score > existing_score[1]
        kept == final_result(IF higher
                             THEN set_score(student, assessment_type, score)
                             ELSE student,
                             assessment_type,
                             IF higher THEN score ELSE existing_score[1],
                             70)
        mid == get_score(student, "Mid")
        submitted == OverallFormula(IF mid = None THEN 0 ELSE mid[1], score)
    IN  IF assessment_type = "Fin"
        THEN [kept EXCEPT !.result =
                 IF submitted >= 70 THEN "pass" ELSE "fail"]
        ELSE kept

\* store_score with line 48 keeping the first score ever stored
store_score_first(student, assessment_type, score) ==
    LET existing_score == get_score(student, assessment_type)
        stored == IF existing_score = None
                  THEN set_score(student, assessment_type, score)
                  ELSE student
    IN  final_result(stored, assessment_type,
                     IF existing_score = None THEN score ELSE existing_score[1],
                     70)

\* store_score with line 48 dropped: every score is stored
store_score_latest(student, assessment_type, score) ==
    final_result(set_score(student, assessment_type, score),
                 assessment_type, score, 70)

\* store_score with line 70 reading overall_score > 70
store_score_strict(student, assessment_type, score) ==
    LET existing_score == get_score(student, assessment_type)
        higher == existing_score = None \/ score > existing_score[1]
    IN  final_result(IF higher THEN set_score(student, assessment_type, score)
                     ELSE student,
                     assessment_type,
                     IF higher THEN score ELSE existing_score[1],
                     71)

\* store_score with lines 65-66 dropped: the overall score is computed from
\* the score found, not from the one just stored
store_score_stale(student, assessment_type, score) ==
    LET existing_score == get_score(student, assessment_type)
        higher == existing_score = None \/ score > existing_score[1]
    IN  final_result(IF higher THEN set_score(student, assessment_type, score)
                     ELSE student,
                     assessment_type,
                     IF existing_score = None THEN score ELSE existing_score[1],
                     70)

store_score(student, assessment_type, score) ==
    LET existing_score == get_score(student, assessment_type)
        stored ==
            IF existing_score = None \/ score > existing_score[1]
            THEN set_score(student, assessment_type, score)
            ELSE student
        mid == get_score(stored, "Mid")
        midcourse_score == IF mid = None THEN 0 ELSE mid[1]
        postcourse_score ==
            IF existing_score = None THEN score
            ELSE IF score > existing_score[1] THEN score
            ELSE existing_score[1]
        overall_score == OverallFormula(midcourse_score, postcourse_score)
    IN  IF assessment_type = "Fin"
        THEN [student |-> set_score(stored, "overall_score", overall_score),
              result  |-> IF overall_score >= 70 THEN "pass" ELSE "fail"]
        ELSE [student |-> stored, result |-> "None"]

(***************************************************************************)
(* State                                                                   *)
(***************************************************************************)
VARIABLES
    student_db,   \* Student entities by key name: [user_id, scores]
    answers_db,   \* StudentAnswersEntity entities by key name: [data, updated_on]
    event_db,     \* EventEntity entities, a bag (recorded_on left out)
    version,      \* commits applied to each entity group
    clock,        \* datetime.datetime.now()
    progress,     \* completions recorded by the progress tracker
    pc,           \* position of each handler in post / the transaction, or
                  \* how its request has ended
    req,          \* arguments of the running update_assessment_transaction
    attempt,      \* retries the transaction has used
    txn,          \* transaction context: entities read, local copies, puts
    requests,     \* calls of update_assessment_transaction so far
    best,         \* history: the highest score committed, per type
    last_answers, \* history: the answers last committed, per type
    commits       \* history: the committed submissions, as a bag

vars == <<student_db, answers_db, event_db, version, clock, progress, pc, req,
          attempt, txn, requests, best, last_answers, commits>>

history == <<best, last_answers, commits>>

db_vars == <<student_db, answers_db, event_db, version>>

\* retries of db.transactional when none is given (line 80)
TransactionRetries == 3

NoReq == [email |-> "", assessment_type |-> "", new_answers |-> "", score |-> 0]

\* before: history, the learner's entities as they were when the transaction
\* committed
NoTxn == [read |-> <<>>, student |-> None, answers |-> None, result |-> "None",
          puts |-> {}, events |-> EmptyBag, before |-> None]

InTxn == {"load_student", "load_answers", "put_student", "put_answers",
          "record_event", "commit"}

\* the entity groups of a learner
StudentGroup(email) == <<"Student", email>>

AnswersGroup(user_id) == <<"StudentAnswersEntity", user_id>>

Groups == {StudentGroup(e) : e \in Emails} \cup {AnswersGroup(UserIdOf(e)) : e \in Emails}

Init ==
    /\ student_db = [e \in Students |->
                        [user_id |-> IF e = "s1" THEN UserIdOf(e) ELSE "",
                         scores  |-> <<>>]]
    /\ answers_db = <<>>
    /\ event_db = EmptyBag
    /\ version = [g \in Groups |-> 0]
    /\ clock = 0
    /\ progress = {}
    /\ pc = [p \in Procs |-> "idle"]
    /\ req = [p \in Procs |-> NoReq]
    /\ attempt = [p \in Procs |-> 0]
    /\ txn = [p \in Procs |-> NoTxn]
    /\ requests = 0
    /\ best = [e \in Students |-> <<>>]
    /\ last_answers = [e \in Students |-> <<>>]
    /\ commits = EmptyBag

\* how a request ends: post returns early, renders the confirmation ("ok")
\* or raises
Ends == {"returned", "ok", "ValueError", "NotFoundError", "ConflictError",
         "DatastoreError", "TrackerError"}

\* the request ends with the given status; what the handler held is still
\* in its frame
Finish(p, status) ==
    /\ pc' = [pc EXCEPT ![p] = status]
    /\ UNCHANGED <<req, attempt, txn>>

\* the response is sent and the handler's frame is gone; it takes the next
\* request
Respond(p) ==
    /\ pc[p] \in Ends
    /\ pc' = [pc EXCEPT ![p] = "idle"]
    /\ req' = [req EXCEPT ![p] = NoReq]
    /\ attempt' = [attempt EXCEPT ![p] = 0]
    /\ txn' = [txn EXCEPT ![p] = NoTxn]
    /\ UNCHANGED <<student_db, answers_db, event_db, version, clock, progress,
                   requests, best, last_answers, commits>>

(***************************************************************************)
(* AnswerHandler.post, lines 121-147                                       *)
(***************************************************************************)
\* lines 123-133: no enrolled student, a bad XSRF token or no assessment
\* type: the handler returns
PostReturn(p) ==
    /\ pc[p] = "idle"
    /\ Finish(p, "returned")
    /\ UNCHANGED <<db_vars, clock, progress, requests, history>>

\* line 143: float() raises ValueError
PostBadScore(p) ==
    /\ pc[p] = "idle"
    /\ \E param \in ScoreParams : ~param.parses
    /\ Finish(p, "ValueError")
    /\ UNCHANGED <<db_vars, clock, progress, requests, history>>

\* lines 123-147: the request is well formed; update_assessment_transaction
\* is called.  The email, type, answers and score come from the given sets;
\* limit caps the calls of one behaviour.
PostCallUpTo(p, limit, emails, types, payloads, params) ==
    /\ pc[p] = "idle"
    /\ requests < limit
    /\ \E email \in emails, assessment_type \in types,
          answers \in payloads, param \in params :
          /\ assessment_type # ""
          /\ param.parses
          /\ req' = [req EXCEPT ![p] =
                        [email |-> email, assessment_type |-> assessment_type,
                         new_answers |-> answers, score |-> ParseScore(param)]]
    /\ requests' = requests + 1
    /\ pc' = [pc EXCEPT ![p] = "load_student"]
    /\ attempt' = [attempt EXCEPT ![p] = 0]
    /\ txn' = [txn EXCEPT ![p] = NoTxn]
    /\ UNCHANGED <<db_vars, clock, progress, history>>

\* a post that tests neither the assessment type nor the score
PostCallUnchecked(p, emails, types, payloads, params) ==
    /\ pc[p] = "idle"
    /\ requests < MaxRequests
    /\ \E email \in emails, assessment_type \in types,
          answers \in payloads, param \in params :
          req' = [req EXCEPT ![p] =
                     [email |-> email, assessment_type |-> assessment_type,
                      new_answers |-> answers, score |-> ParseScore(param)]]
    /\ requests' = requests + 1
    /\ pc' = [pc EXCEPT ![p] = "load_student"]
    /\ attempt' = [attempt EXCEPT ![p] = 0]
    /\ txn' = [txn EXCEPT ![p] = NoTxn]
    /\ UNCHANGED <<db_vars, clock, progress, history>>

\* a post that marks the assessment completed before it calls the transaction
PostCallTrackFirst(p, emails, types, payloads, params) ==
    /\ pc[p] = "idle"
    /\ requests < MaxRequests
    /\ \E email \in emails, assessment_type \in types,
          answers \in payloads, param \in params :
          /\ assessment_type # ""
          /\ param.parses
          /\ req' = [req EXCEPT ![p] =
                        [email |-> email, assessment_type |-> assessment_type,
                         new_answers |-> answers, score |-> ParseScore(param)]]
          /\ progress' = progress \cup {<<email, assessment_type>>}
    /\ requests' = requests + 1
    /\ pc' = [pc EXCEPT ![p] = "load_student"]
    /\ attempt' = [attempt EXCEPT ![p] = 0]
    /\ txn' = [txn EXCEPT ![p] = NoTxn]
    /\ UNCHANGED <<db_vars, clock, history>>

PostCall(p, emails, types, payloads, params) ==
    PostCallUpTo(p, MaxRequests, emails, types, payloads, params)

(***************************************************************************)
(* update_assessment_transaction, lines 80-119.  db.transactional(xg=True) *)
(* runs the body against the versions of the entity groups it reads,       *)
(* buffers its puts, and applies them together when the body returns and   *)
(* no group it touched was committed to meanwhile; otherwise it rolls back *)
(* and runs the body again.  An exception rolls back and propagates.       *)
(***************************************************************************)
\* lines 94-98 creating the Student that is missing, as line 102 does for the
\* answers
get_student_create(students, email) ==
    IF email \in DOMAIN students
    THEN IF students[email].user_id = ""
         THEN [students[email] EXCEPT !.user_id = UserIdOf(email)]
         ELSE students[email]
    ELSE [user_id |-> UserIdOf(email), scores |-> <<>>]

\* lines 94-98: the Student, its user_id filled in when missing; None when
\* there is no such entity
get_student(students, email) ==
    IF email \in DOMAIN students
    THEN IF students[email].user_id = ""
         THEN [students[email] EXCEPT !.user_id = UserIdOf(email)]
         ELSE students[email]
    ELSE None

\* a transaction that starts a new answers entity every time
get_answers_fresh(answers, user_id, now, assessment_type, new_answers) ==
    set_answer([data |-> <<>>, updated_on |-> now],
               assessment_type, new_answers)

\* lines 100-105 keeping the answers already stored for the type
get_answers_first(answers, user_id, now, assessment_type, new_answers) ==
    LET loaded == IF user_id \in DOMAIN answers
                  THEN answers[user_id]
                  ELSE [data |-> <<>>, updated_on |-> 0]
        stamped == [loaded EXCEPT !.updated_on = now]
    IN  IF assessment_type \in DOMAIN loaded.data
        THEN stamped
        ELSE set_answer(stamped, assessment_type, new_answers)

\* lines 100-105: the answers entity, loaded or new, stamped, with the new
\* answers set
get_answers(answers, user_id, now, assessment_type, new_answers) ==
    LET loaded == IF user_id \in DOMAIN answers
                  THEN answers[user_id]
                  ELSE [data |-> <<>>, updated_on |-> 0]
    IN  set_answer([loaded EXCEPT !.updated_on = now],
                   assessment_type, new_answers)

\* lines 114-117: the entity EventEntity.record puts
submit_event(r) ==
    [source |-> "submit-assessment", user_id |-> UserIdOf(r.email),
     type |-> r.assessment_type, values |-> r.new_answers,
     location |-> "AnswerHandler"]

\* lines 94-110 and the commit in one piece: the entities and the result a
\* call leaves when it runs alone at time now on a Student that exists
RunTransaction(students, answers, r, now) ==
    LET student == get_student(students, r.email)
        stored == store_score(student, r.assessment_type, r.score)
        entity == get_answers(answers, student.user_id, now,
                              r.assessment_type, r.new_answers)
    IN  [students |-> [students EXCEPT ![r.email] = stored.student],
         answers  |-> [k \in DOMAIN answers \cup {student.user_id} |->
                          IF k = student.user_id THEN entity ELSE answers[k]],
         result   |-> stored.result]

\* line 94, line 97 on a Student that exists
LoadStudent(p) ==
    /\ pc[p] = "load_student"
    /\ get_student(student_db, req[p].email) # None
    /\ txn' = [txn EXCEPT ![p].student = get_student(student_db, req[p].email),
                          ![p].read = <<version[StudentGroup(req[p].email)]>>]
    /\ pc' = [pc EXCEPT ![p] = "load_answers"]
    /\ UNCHANGED <<db_vars, clock, progress, req, attempt, requests,
                   history>>

\* line 94 returns None and line 97 raises AttributeError: the transaction is
\* rolled back and the error reaches the caller
LoadStudentMissing(p) ==
    /\ pc[p] = "load_student"
    /\ get_student(student_db, req[p].email) = None
    /\ Finish(p, "NotFoundError")
    /\ UNCHANGED <<db_vars, clock, progress, requests, history>>

\* lines 100-107
LoadAnswers(p) ==
    LET r == req[p]
        student == txn[p].student
        stored == store_score(student, r.assessment_type, r.score)
    IN  /\ pc[p] = "load_answers"
        /\ clock' = clock + 1
        /\ txn' = [txn EXCEPT
                ![p].answers = get_answers(answers_db, student.user_id, clock',
                                           r.assessment_type, r.new_answers),
                ![p].read = Append(@, version[AnswersGroup(student.user_id)]),
                ![p].student = stored.student,
                ![p].result = stored.result]
        /\ pc' = [pc EXCEPT ![p] = "put_student"]
        /\ UNCHANGED <<db_vars, progress, req, attempt, requests,
                       history>>

\* line 109 outside any transaction: student.put() writes at once
PutStudentNow(p) ==
    /\ pc[p] = "put_student"
    /\ student_db' = [student_db EXCEPT ![req[p].email] = txn[p].student]
    /\ pc' = [pc EXCEPT ![p] = "put_answers"]
    /\ UNCHANGED <<answers_db, event_db, version, clock, progress, req, attempt,
                   txn, requests, history>>

\* line 109: student.put() joins the transaction
PutStudent(p) ==
    /\ pc[p] = "put_student"
    /\ txn' = [txn EXCEPT ![p].puts = @ \cup {"student"}]
    /\ pc' = [pc EXCEPT ![p] = "put_answers"]
    /\ UNCHANGED <<db_vars, clock, progress, req, attempt, requests,
                   history>>

\* line 110: answers.put() joins the transaction
PutAnswers(p) ==
    /\ pc[p] = "put_answers"
    /\ txn' = [txn EXCEPT ![p].puts = @ \cup {"answers"}]
    /\ pc' = [pc EXCEPT ![p] = "record_event"]
    /\ UNCHANGED <<db_vars, clock, progress, req, attempt, requests,
                   history>>

\* lines 114-117 outside any transaction: the event is stored at once
RecordEventNow(p) ==
    /\ pc[p] = "record_event"
    /\ event_db' = event_db (+) SetToBag({submit_event(req[p])})
    /\ pc' = [pc EXCEPT ![p] = "commit"]
    /\ UNCHANGED <<student_db, answers_db, version, clock, progress, req,
                   attempt, txn, requests, history>>

\* lines 114-117: EventEntity.record puts a new entity, inside the
\* transaction
RecordEvent(p) ==
    /\ pc[p] = "record_event"
    /\ txn' = [txn EXCEPT ![p].events = @ (+) SetToBag({submit_event(req[p])})]
    /\ pc' = [pc EXCEPT ![p] = "commit"]
    /\ UNCHANGED <<db_vars, clock, progress, req, attempt, requests,
                   history>>

\* a commit that checks nothing
FreshAlways(p) == TRUE

\* no entity group the transaction read has been committed to since
Fresh(p) ==
    /\ version[StudentGroup(req[p].email)] = txn[p].read[1]
    /\ version[AnswersGroup(txn[p].student.user_id)] = txn[p].read[2]

\* d with d[k] = v, k added to its domain when new
Put(d, k, v) == [j \in DOMAIN d \cup {k} |-> IF j = k THEN v ELSE d[j]]

\* the body has returned and the transaction commits: every buffered put
\* becomes durable in one step
Commit(p) ==
    LET r == req[p]
        e == r.email
        u == txn[p].student.user_id
        sg == StudentGroup(e)
        ag == AnswersGroup(u)
        was == [scores |-> student_db[e].scores,
                data |-> IF u \in DOMAIN answers_db
                         THEN answers_db[u].data ELSE <<>>]
    IN  /\ pc[p] = "commit"
        /\ Fresh(p)
        /\ student_db' = IF "student" \in txn[p].puts
                         THEN Put(student_db, e, txn[p].student)
                         ELSE student_db
        /\ answers_db' = IF "answers" \in txn[p].puts
                         THEN Put(answers_db, u, txn[p].answers)
                         ELSE answers_db
        /\ event_db' = event_db (+) txn[p].events
        /\ version' = [g \in Groups |->
                IF \/ g = sg /\ "student" \in txn[p].puts
                   \/ g = ag /\ "answers" \in txn[p].puts
                THEN version[g] + 1 ELSE version[g]]
        /\ best' = [best EXCEPT ![e] =
                IF r.assessment_type \in DOMAIN @ /\ @[r.assessment_type] >= r.score
                THEN @ ELSE Put(@, r.assessment_type, r.score)]
        /\ last_answers' = [last_answers EXCEPT ![e] =
                                Put(@, r.assessment_type, r.new_answers)]
        /\ commits' = commits (+) SetToBag({submit_event(r)})
        /\ pc' = [pc EXCEPT ![p] = "tracker"]
        /\ txn' = [txn EXCEPT ![p].before = was]
        /\ UNCHANGED <<clock, progress, req, attempt, requests>>

\* a conflicting transaction that is run again however often it has failed
ConflictForever(p) ==
    /\ pc[p] = "commit"
    /\ ~Fresh(p)
    /\ attempt' = [attempt EXCEPT ![p] = @ + 1]
    /\ txn' = [txn EXCEPT ![p] = NoTxn]
    /\ pc' = [pc EXCEPT ![p] = "load_student"]
    /\ UNCHANGED <<db_vars, clock, progress, req, requests, history>>

\* the commit finds a group changed: roll back, and run the body again or,
\* out of retries, raise TransactionFailedError
Conflict(p) ==
    /\ pc[p] = "commit"
    /\ ~Fresh(p)
    /\ IF attempt[p] < TransactionRetries
       THEN /\ attempt' = [attempt EXCEPT ![p] = @ + 1]
            /\ txn' = [txn EXCEPT ![p] = NoTxn]
            /\ pc' = [pc EXCEPT ![p] = "load_student"]
            /\ UNCHANGED req
       ELSE Finish(p, "ConflictError")
    /\ UNCHANGED <<db_vars, clock, progress, requests, history>>

\* a datastore call of the transaction raises (Timeout, InternalError) or
\* the instance dies: the transaction is rolled back
Abort(p) ==
    /\ pc[p] \in InTxn
    /\ Finish(p, "DatastoreError")
    /\ UNCHANGED <<db_vars, clock, progress, requests, history>>

(***************************************************************************)
(* AnswerHandler.post, lines 149-158                                       *)
(***************************************************************************)
\* lines 150-158: the progress tracker records the completion and the
\* confirmation page is rendered with the result
TrackerDone(p) ==
    /\ pc[p] = "tracker"
    /\ progress' = progress \cup {<<req[p].email, req[p].assessment_type>>}
    /\ Finish(p, "ok")
    /\ UNCHANGED <<db_vars, clock, requests, history>>

\* line 150 raises
TrackerFail(p) ==
    /\ pc[p] = "tracker"
    /\ Finish(p, "TrackerError")
    /\ UNCHANGED <<db_vars, clock, progress, requests, history>>

\* one step of a handler that runs alone: no commit of its can conflict
StepAlone(p, emails, types, payloads, params) ==
    \/ PostReturn(p)
    \/ PostBadScore(p)
    \/ PostCall(p, emails, types, payloads, params)
    \/ LoadStudent(p)
    \/ LoadStudentMissing(p)
    \/ LoadAnswers(p)
    \/ PutStudent(p)
    \/ PutAnswers(p)
    \/ RecordEvent(p)
    \/ Commit(p)
    \/ Abort(p)
    \/ TrackerDone(p)
    \/ TrackerFail(p)
    \/ Respond(p)

\* one step of a handler among others
Step(p, emails, types, payloads, params) ==
    \/ StepAlone(p, emails, types, payloads, params)
    \/ Conflict(p)

\* one handler at a time, every input
Next ==
    StepAlone("p1", {"s1", "nobody"}, TypeParams, Payloads, ScoreParams)

Spec == Init /\ [][Next]_vars

\* the 'score' parameters of the racing requests
RaceScores == {s \in ScoreParams : s.tenths \in {596, 904}}

\* two handlers at once, final assessments of one learner (and of nobody)
NextRace ==
    \E p \in Procs : Step(p, {"s1", "nobody"}, {"Fin"}, Payloads, RaceScores)

SpecRace == Init /\ [][NextRace]_vars

\* one handler, the requests of a learner whose Student entity has no user_id
NextLegacy ==
    StepAlone("p1", {"s2", "nobody"}, TypeParams, Payloads, ScoreParams)

SpecLegacy == Init /\ [][NextLegacy]_vars

\* two handlers at once, final assessments of two learners
NextTwo ==
    \E p \in Procs :
        Step(p, {"s1", "s2", "nobody"}, {"Fin"}, {"a1"}, RaceScores)

SpecTwo == Init /\ [][NextTwo]_vars

\* the one 'score' parameter of the contending requests
ContendScores == {s \in ScoreParams : s.tenths = 596}

\* calls enough for one transaction to lose every attempt it has
ContendCalls == MaxRequests + TransactionRetries

\* two handlers at once, well-formed requests of the one learner, all alike;
\* no datastore call fails but by a conflict and the tracker call succeeds
StepContend(p) ==
    \/ PostCallUpTo(p, ContendCalls, {"s1"}, {"Fin"}, {"a1"}, ContendScores)
    \/ LoadStudent(p)
    \/ LoadAnswers(p)
    \/ PutStudent(p)
    \/ PutAnswers(p)
    \/ RecordEvent(p)
    \/ Commit(p)
    \/ Conflict(p)
    \/ TrackerDone(p)
    \/ Respond(p)

NextContend == \E p \in Procs : StepContend(p)

SpecContend == Init /\ [][NextContend]_vars

\* the positions of a handler
PcStates ==
    {"idle", "load_student", "load_answers", "put_student", "put_answers",
     "record_event", "commit", "tracker"} \cup Ends

\* the handler p, which has a request, moves on
Advance(p) ==
    /\ pc[p] # "idle"
    /\ \E s \in PcStates \ {pc[p]} : pc' = [pc EXCEPT ![p] = s]

\* a handler that has a request always has a step to take (every position
\* but idle is left by some disjunct of StepContend) and the runtime does not
\* starve it: it takes one
SpecContendFair ==
    SpecContend /\ \A p \in Procs : WF_pc(Advance(p))

(***************************************************************************)
(* Properties                                                              *)
(***************************************************************************)
\* the stored scores of a learner
ScoresOf(e) == student_db[e].scores

\* the stored answers of a learner, <<>> while there is no entity
DataOf(e) ==
    IF UserIdOf(e) \in DOMAIN answers_db THEN answers_db[UserIdOf(e)].data ELSE <<>>

\* the answers entity of a learner, if any
EntityOf(e) ==
    IF UserIdOf(e) \in DOMAIN answers_db THEN Some(answers_db[UserIdOf(e)]) ELSE None

\* the transaction of p has committed and post has not gone on yet
JustCommitted(p) == pc[p] = "tracker"

\* this step commits the transaction of p
CommitStep(p) == pc[p] = "commit" /\ pc'[p] = "tracker"

FloorDiv(a, b) == a \div b

\* C1: under every type other than 'overall_score' a score is stored exactly
\* when a submission of that type has committed, and it is the maximum of the
\* scores of all the committed submissions of that type.
C1_StoredIsMaximum ==
    \A e \in Students : \A T \in Types \ {"overall_score"} :
        /\ T \in DOMAIN ScoresOf(e) <=> T \in DOMAIN best[e]
        /\ T \in DOMAIN best[e] => ScoresOf(e)[T] = best[e][T]

\* a submission has committed with a score below the one stored for its type,
\* and the higher score is still the one stored
C1_Witness ==
    \E p \in Procs :
        LET r == req[p] IN
        /\ JustCommitted(p)
        /\ r.assessment_type # "overall_score"
        /\ r.assessment_type \in DOMAIN txn[p].before.scores
        /\ r.score < txn[p].before.scores[r.assessment_type]
        /\ ScoresOf(r.email)[r.assessment_type] = best[r.email][r.assessment_type]

\* C2: no step removes or lowers the score stored under a key other than
\* 'overall_score'.
C2_Monotone ==
    [][\A e \in Students : \A k \in DOMAIN ScoresOf(e) \ {"overall_score"} :
          /\ k \in DOMAIN ScoresOf(e)'
          /\ ScoresOf(e)'[k] >= ScoresOf(e)[k]]_vars

\* a submission of one type has committed for a learner who had a score under
\* another key, and that score is as it was
C2_Witness ==
    \E p \in Procs : \E k \in Types \ {"overall_score"} :
        /\ JustCommitted(p)
        /\ k # req[p].assessment_type
        /\ k \in DOMAIN txn[p].before.scores
        /\ ScoresOf(req[p].email)[k] = txn[p].before.scores[k]

\* C3: the stored answers of a learner are, type by type, the payload of the
\* last committed submission of that type; a submission that has just
\* committed with a score not above the stored one has replaced the answers
\* and left the score.
C3_LatestAnswers ==
    /\ \A e \in Students : DataOf(e) = last_answers[e]
    /\ \A p \in Procs : JustCommitted(p) =>
          LET r == req[p]
              T == r.assessment_type
              was == txn[p].before.scores
          IN  /\ DataOf(r.email)[T] = r.new_answers
              /\ (T \in DOMAIN was /\ r.score <= was[T])
                    => ScoresOf(r.email)[T] = was[T]

\* a lower-scoring submission has replaced other answers and left the score
C3_Witness ==
    \E p \in Procs :
        LET r == req[p]
            T == r.assessment_type
            was == txn[p].before
        IN  /\ JustCommitted(p)
            /\ T \in DOMAIN was.scores
            /\ r.score < was.scores[T]
            /\ was.data[T] # r.new_answers
            /\ DataOf(r.email)[T] = r.new_answers
            /\ ScoresOf(r.email)[T] = was.scores[T]

\* C4: the Student and the answers entity of a learner change only in the one
\* step that commits a transaction for that learner, and that step installs
\* both the student and the answers of that transaction; a step that ends a
\* call in any other way changes neither.
C4_AllOrNothing ==
    [][\A e \in Students :
          (ScoresOf(e)' # ScoresOf(e) \/ EntityOf(e)' # EntityOf(e)) =>
             \E p \in Procs :
                /\ CommitStep(p)
                /\ req[p].email = e
                /\ student_db'[e] = txn[p].student
                /\ EntityOf(e)' = Some(txn[p].answers)]_vars

\* a call has failed between student.put() and answers.put(), and the score
\* it was storing is not in the datastore
C4_Witness ==
    \E p \in Procs :
        /\ pc[p] = "DatastoreError"
        /\ txn[p].puts = {"student"}
        /\ ScoresOf(req[p].email) # txn[p].student.scores

\* C5: a commit leaves under the type of its submission the maximum of the
\* score the datastore held at that moment and the submitted score, so of two
\* racing submissions of one type neither update is lost.
C5_NoLostUpdate ==
    [][\A p \in Procs : CommitStep(p) =>
          LET T == req[p].assessment_type
              e == req[p].email
              held == ScoresOf(e)
          IN  ScoresOf(e)'[T] =
                IF T \in DOMAIN held /\ held[T] >= req[p].score
                THEN held[T] ELSE req[p].score]_vars

\* a transaction that lost a race has run again, found the higher score its
\* rival committed, and committed leaving it
C5_Witness ==
    \E p \in Procs :
        LET T == req[p].assessment_type IN
        /\ JustCommitted(p)
        /\ attempt[p] > 0
        /\ T \in DOMAIN txn[p].before.scores
        /\ txn[p].before.scores[T] > req[p].score
        /\ ScoresOf(req[p].email)[T] = txn[p].before.scores[T]

\* C6: a call for an email with no Student never gets past line 97: the step
\* it takes ends it with an error (the AttributeError of line 97, or a failed
\* datastore call) and changes no Student, no answers entity and no event.
C6_UnknownLearner ==
    [][\A p \in Procs :
          (pc[p] \in InTxn /\ req[p].email \notin DOMAIN student_db
              /\ pc'[p] # pc[p]) =>
             /\ pc[p] = "load_student"
             /\ pc'[p] \in {"NotFoundError", "DatastoreError"}
             /\ UNCHANGED <<student_db, answers_db, event_db, version>>]_vars

\* a call for an unknown learner has ended with the error of line 97
C6_Witness ==
    \E p \in Procs :
        /\ pc[p] = "NotFoundError"
        /\ req[p].email \notin DOMAIN student_db
        /\ UserIdOf(req[p].email) \notin DOMAIN answers_db

\* C7 (as claimed): after a committed 'Fin' submission the stored
\* 'overall_score' is floor(0.3 * mid + 0.7 * fin), mid the stored 'Mid' score
\* (0 when absent) and fin the stored 'Fin' score.
C7_OverallIsFloor ==
    \A p \in Procs : (JustCommitted(p) /\ req[p].assessment_type = "Fin") =>
        LET s == ScoresOf(req[p].email)
            mid == IF "Mid" \in DOMAIN s THEN s["Mid"] ELSE 0
        IN  s["overall_score"] = FloorDiv(3 * mid + 7 * s["Fin"], 10)

\* C8: the result a call returns is 'pass' when the type is 'Fin' and the
\* overall score it stored is at least 70, 'fail' when the type is 'Fin' and
\* that score is below 70, and None for every other type.
C8_Result ==
    \A p \in Procs : JustCommitted(p) =>
        txn[p].result =
            IF req[p].assessment_type = "Fin"
            THEN IF ScoresOf(req[p].email)["overall_score"] >= 70
                 THEN "pass" ELSE "fail"
            ELSE "None"

\* a 'Fin' submission has stored an overall score of exactly 70 and passed
C8_Witness ==
    \E p \in Procs :
        /\ JustCommitted(p)
        /\ req[p].assessment_type = "Fin"
        /\ ScoresOf(req[p].email)["overall_score"] = 70
        /\ txn[p].result = "pass"

C10_Idempotent ==
    \A p \in Procs : JustCommitted(p) =>
        LET e == req[p].email
            again == RunTransaction(student_db, answers_db, req[p], clock + 1)
        IN  /\ again.students[e].scores = ScoresOf(e)
            /\ again.answers[UserIdOf(e)].data = DataOf(e)
            /\ again.result = txn[p].result

\* a 'Fin' submission has committed that raised the 'Fin' score stored before
\* and so recomputed the overall score
C10_Witness ==
    \E p \in Procs :
        /\ JustCommitted(p)
        /\ req[p].assessment_type = "Fin"
        /\ "Fin" \in DOMAIN txn[p].before.scores
        /\ txn[p].before.scores["Fin"] < req[p].score
        /\ txn[p].before.scores["overall_score"]
              # ScoresOf(req[p].email)["overall_score"]

\* C11: put_assessment_completed is called only by a handler whose
\* transaction has committed (its submission is among the committed ones and
\* the stored score of its type is at least the submitted one), and the step
\* after the commit, whether the tracker call succeeds or raises, leaves the
\* stored entities and events as they are.
C11_TrackerAfterCommit ==
    [][/\ progress' # progress =>
            \E p \in Procs :
                LET r == req[p] IN
                /\ pc[p] = "tracker"
                /\ BagIn(submit_event(r), commits)
                /\ r.assessment_type \in DOMAIN ScoresOf(r.email)
                /\ ScoresOf(r.email)[r.assessment_type] >= r.score
                /\ progress' = progress \cup {<<r.email, r.assessment_type>>}
       /\ \A p \in Procs :
            pc[p] = "tracker" /\ pc'[p] # "tracker" => UNCHANGED db_vars]_vars

\* the tracker call of a committed submission has raised: the completion is
\* not recorded, and the submitted answers and the score the transaction
\* stored are in place
C11_Witness ==
    \E p \in Procs :
        LET r == req[p] IN
        /\ pc[p] = "TrackerError"
        /\ <<r.email, r.assessment_type>> \notin progress
        /\ ScoresOf(r.email) = txn[p].student.scores
        /\ ScoresOf(r.email)[r.assessment_type] = r.score
        /\ DataOf(r.email)[r.assessment_type] = r.new_answers
        /\ BagIn(submit_event(r), event_db)

\* the entry of a scores dictionary under key k: None when there is none
EntryOf(scores, k) == IF k \in DOMAIN scores THEN Some(scores[k]) ELSE None

\* C12: a committed submission whose assessment type is not 'Fin', whatever
\* type string it carries, leaves the 'overall_score' entry of the learner's
\* scores as it was before the commit (absent, or present with the same value).
C12_OverallOnlyOnFin ==
    \A p \in Procs :
        JustCommitted(p) /\ req[p].assessment_type # "Fin" =>
            EntryOf(ScoresOf(req[p].email), "overall_score")
                = EntryOf(txn[p].before.scores, "overall_score")

\* the scores post can pass on: those of the 'score' parameters that parse
ParsedScores == {ParseScore(param) : param \in {s \in ScoreParams : s.parses}}

\* C14: a request that post rejects (no assessment type: it returns; a score
\* that does not parse: ValueError) ends without a transaction: the step
\* changes no stored entity, event, version or tracker entry and the handler
\* holds no transaction; and every handler that is in the transaction or past
\* it carries an assessment type and a parsed score.
C14_RejectedBeforeStorage ==
    [][\A p \in Procs :
        /\ pc[p] = "idle" /\ pc'[p] \in {"returned", "ValueError"} =>
              /\ UNCHANGED <<db_vars, progress, history>>
              /\ txn'[p] = NoTxn
              /\ attempt'[p] = 0
        /\ pc'[p] \in InTxn \cup {"tracker"} =>
              /\ req'[p].assessment_type # ""
              /\ req'[p].score \in ParsedScores]_vars

\* a request whose score does not parse has ended with ValueError after an
\* earlier submission of the learner committed: what that submission stored
\* is all there is
C14_Witness ==
    \E p \in Procs :
        /\ pc[p] = "ValueError"
        /\ txn[p] = NoTxn
        /\ BagCardinality(commits) = 1
        /\ event_db = commits
        /\ \E e \in Students : DOMAIN DataOf(e) # {} /\ DataOf(e) = last_answers[e]

\* C16: the answers entities stored are those of the learners with a
\* committed submission, one each, under the learner's user id; no step
\* removes one; the commit of a submission creates the learner's entity when
\* there is none and otherwise keeps the one there is, with every entry it
\* had (only that of the submitted type replaced) and a later timestamp.
C16_LazyAnswersRecord ==
    [][/\ DOMAIN answers_db' =
            {UserIdOf(e) : e \in {s \in Students : DOMAIN last_answers'[s] # {}}}
       /\ DOMAIN answers_db \subseteq DOMAIN answers_db'
       /\ \A p \in Procs : CommitStep(p) =>
            LET u == UserIdOf(req[p].email)
                T == req[p].assessment_type
            IN  /\ DOMAIN answers_db' = DOMAIN answers_db \cup {u}
                /\ answers_db'[u].data[T] = req[p].new_answers
                /\ u \in DOMAIN answers_db =>
                     /\ DOMAIN answers_db'[u].data
                            = DOMAIN answers_db[u].data \cup {T}
                     /\ \A k \in DOMAIN answers_db[u].data \ {T} :
                            answers_db'[u].data[k] = answers_db[u].data[k]
                     /\ answers_db'[u].updated_on > answers_db[u].updated_on
                /\ u \notin DOMAIN answers_db =>
                     DOMAIN answers_db'[u].data = {T}]_vars

\* a second submission of a learner, of another type than the first, has
\* committed: there is one answers entity, it holds the answers of both
C16_Witness ==
    \E p \in Procs : \E k \in Types :
        /\ JustCommitted(p)
        /\ k # req[p].assessment_type
        /\ k \in DOMAIN txn[p].before.data
        /\ DOMAIN answers_db = {UserIdOf(req[p].email)}
        /\ DataOf(req[p].email)[k] = txn[p].before.data[k]
        /\ DataOf(req[p].email)[req[p].assessment_type] = req[p].new_answers

\* the keys a submission of type T may write in the scores
WrittenKeys(T) == IF T = "Fin" THEN {T, "overall_score"} ELSE {T}

\* the commit of p leaves the learner's scores under every key but those of
\* the submitted type as they are
ScoresFrame(p) ==
    LET e == req[p].email
        keys == DOMAIN ScoresOf(e) \cup DOMAIN ScoresOf(e)'
    IN  \A k \in keys \ WrittenKeys(req[p].assessment_type) :
            EntryOf(ScoresOf(e)', k) = EntryOf(ScoresOf(e), k)

\* the commit of p leaves the learner's stored answers of every type but the
\* submitted one as they are
DataFrame(p) ==
    LET e == req[p].email
        keys == DOMAIN DataOf(e) \cup DOMAIN DataOf(e)'
    IN  \A k \in keys \ {req[p].assessment_type} :
            EntryOf(DataOf(e)', k) = EntryOf(DataOf(e), k)

\* C17 as stated: a commit of type T changes in the learner's profile nothing
\* but the score under T (and 'overall_score' when T is 'Fin'), so the user
\* id of the profile stays, and in the answers only the entry of T.
C17_OnlyScoreOfType ==
    [][\A p \in Procs : CommitStep(p) =>
        /\ ScoresFrame(p)
        /\ DataFrame(p)
        /\ student_db'[req[p].email].user_id
                = student_db[req[p].email].user_id]_vars

\* C17: a commit of type T leaves the scores under every key but T (and
\* 'overall_score' when T is 'Fin') and the stored answers of every type but
\* T as they are; of the rest of the profile it changes the user id, and only
\* when none was set: it becomes the id of the learner.
C17_FrameOfCommit ==
    [][\A p \in Procs : CommitStep(p) =>
        LET e == req[p].email IN
        /\ ScoresFrame(p)
        /\ DataFrame(p)
        /\ student_db'[e].user_id =
              IF student_db[e].user_id = "" THEN UserIdOf(e)
              ELSE student_db[e].user_id]_vars

\* a 'Fin' submission has committed for a learner whose profile had no user
\* id at first and who had a 'Mid' score and 'Mid' answers: both are as they
\* were, the overall score is written, the user id is set
C17_Witness ==
    \E p \in Procs :
        LET e == req[p].email IN
        /\ JustCommitted(p)
        /\ req[p].assessment_type = "Fin"
        /\ "Mid" \in DOMAIN txn[p].before.scores
        /\ "Mid" \in DOMAIN txn[p].before.data
        /\ ScoresOf(e)["Mid"] = txn[p].before.scores["Mid"]
        /\ DataOf(e)["Mid"] = txn[p].before.data["Mid"]
        /\ "overall_score" \notin DOMAIN txn[p].before.scores
        /\ "overall_score" \in DOMAIN ScoresOf(e)
        /\ e = "s2" /\ student_db[e].user_id = UserIdOf(e)

\* C18: while no submission of type 'overall_score' has committed for a
\* learner (the scores submitted are all non-negative), no step removes or
\* lowers the score stored under 'overall_score'.
C18_OverallNeverDecreases ==
    [][\A e \in Students :
        /\ "overall_score" \notin DOMAIN best'[e]
        /\ \A k \in DOMAIN best'[e] : best'[e][k] >= 0
        /\ "overall_score" \in DOMAIN ScoresOf(e)
        => /\ "overall_score" \in DOMAIN ScoresOf(e)'
           /\ ScoresOf(e)'["overall_score"] >= ScoresOf(e)["overall_score"]]_vars

\* a 'Fin' submission with a score below the stored 'Fin' score has
\* committed: the overall score was written again, with the value it had
C18_Witness ==
    \E p \in Procs :
        LET e == req[p].email IN
        /\ JustCommitted(p)
        /\ req[p].assessment_type = "Fin"
        /\ "overall_score" \notin DOMAIN best[e]
        /\ "Fin" \in DOMAIN txn[p].before.scores
        /\ req[p].score < txn[p].before.scores["Fin"]
        /\ "student" \in txn[p].puts
        /\ ScoresOf(e)["overall_score"] = txn[p].before.scores["overall_score"]

\* C19: when a 'Fin' submission has committed for a learner whose committed
\* submissions are all of type 'Mid' or 'Fin', and an earlier 'Fin'
\* submission had returned 'pass' (the overall score it stored, which only a
\* 'Fin' submission writes, was at least 70 before this commit), then this
\* submission returns 'pass' too.
C19_PassStays ==
    \A p \in Procs :
        LET e == req[p].email
            was == txn[p].before.scores
        IN  /\ JustCommitted(p)
            /\ req[p].assessment_type = "Fin"
            /\ DOMAIN best[e] \subseteq {"Mid", "Fin"}
            /\ "overall_score" \in DOMAIN was
            /\ was["overall_score"] >= 70
            => txn[p].result = "pass"

\* after a 'Fin' submission that passed, a 'Fin' submission whose score alone
\* would fail has committed, and it has returned 'pass'
C19_Witness ==
    \E p \in Procs :
        LET e == req[p].email
            was == txn[p].before.scores
            mid == IF "Mid" \in DOMAIN was THEN was["Mid"] ELSE 0
        IN  /\ JustCommitted(p)
            /\ req[p].assessment_type = "Fin"
            /\ DOMAIN best[e] \subseteq {"Mid", "Fin"}
            /\ "overall_score" \in DOMAIN was
            /\ was["overall_score"] >= 70
            /\ OverallFormula(mid, req[p].score) < 70
            /\ txn[p].result = "pass"

\* the scores a learner has when the submissions committed for that learner
\* alone are run: the best score of each type and, while only 'Fin'
\* submissions have committed, the overall score of the best 'Fin' score
OwnScores(e) ==
    IF DOMAIN best[e] = {"Fin"}
    THEN [k \in {"Fin", "overall_score"} |->
            IF k = "Fin" THEN best[e]["Fin"]
            ELSE OverallFormula(0, best[e]["Fin"])]
    ELSE best[e]

\* C13: the commit of a submission of one learner leaves the Student entity
\* and the answers entity of every other learner as they are, also when
\* handlers of several learners run at once; and the scores and the answers
\* stored for each learner are those that the learner's own committed
\* submissions give.
C13_ScopedToLearner ==
    [][/\ \A p \in Procs : CommitStep(p) =>
            \A e \in Students \ {req[p].email} :
                /\ student_db'[e] = student_db[e]
                /\ EntityOf(e)' = EntityOf(e)
       /\ \A e \in Students :
            Types \cap DOMAIN best[e] \subseteq {"Fin"} =>
                /\ ScoresOf(e) = OwnScores(e)
                /\ DataOf(e) = last_answers[e]]_vars

\* a submission of one learner has committed while the transaction of
\* another learner is waiting to commit: that transaction is still fresh, the
\* other learner has nothing stored yet, and the first learner has the scores
\* and answers of the submission
C13_Witness ==
    \E p \in Procs : \E q \in Procs \ {p} :
        LET a == req[p].email
            b == req[q].email
        IN  /\ JustCommitted(p)
            /\ pc[q] = "commit"
            /\ b \in Students \ {a}
            /\ Fresh(q)
            /\ ScoresOf(b) = <<>> /\ EntityOf(b) = None
            /\ "Fin" \in DOMAIN ScoresOf(a)
            /\ ScoresOf(a) = OwnScores(a)
            /\ DataOf(a) = last_answers[a]

\* C15: a transaction is run again at most TransactionRetries times; the step
\* that gives up with ConflictError comes after that many retries and changes
\* nothing stored; and every handler that is in a transaction leaves it, and
\* every request ends, however the handlers of the learner contend.
C15_Terminates ==
    /\ [](\A p \in Procs : attempt[p] <= TransactionRetries)
    /\ [][\A p \in Procs :
            pc[p] # "ConflictError" /\ pc'[p] = "ConflictError" =>
                /\ attempt[p] = TransactionRetries
                /\ txn[p].puts # {}
                /\ UNCHANGED <<db_vars, progress, history>>]_vars
    /\ \A p \in Procs : (pc[p] \in InTxn) ~> (pc[p] \notin InTxn)
    /\ \A p \in Procs : (pc[p] # "idle") ~> (pc[p] = "idle")

\* a transaction has lost every attempt it had to commits of the other
\* handler and the request has ended with ConflictError; the stored score is
\* that of the other handler's submissions
C15_Witness ==
    \E p \in Procs :
        /\ pc[p] = "ConflictError"
        /\ attempt[p] = TransactionRetries
        /\ BagCardinality(commits) = TransactionRetries + 1
        /\ event_db = commits
        /\ ScoresOf(req[p].email) = OwnScores(req[p].email)
====
